---- MODULE Spec2Model ----
(***************************************************************************)
(* Room membership and routing engine of the Weblink WebSocket signaling   *)
(* server (the version with the grace period and the per-client message    *)
(* cache, src/unnamed/part_001).                                           *)
(*                                                                         *)
(* One action per WebSocket handler (open, message, close) and one for the *)
(* firing of a grace timer.  The handlers run to completion on the single  *)
(* JavaScript thread, so every handler is one atomic step.  ws.close()     *)
(* runs the close handler before it returns (Bun/uWebSockets: "immediately *)
(* calls the close handler"), so a close initiated by the server is part   *)
(* of the step that initiates it.                                          *)
(***************************************************************************)
EXTENDS Integers, Sequences, FiniteSets

\* ------------------------------------------------------------------ bounds
NSess == 3          \* WebSocket connections accepted during a run
MaxFrames == 3      \* inbound join / leave / message frames during a run

\* PONG_TIMEOUT, in ticks of the model's clock
PONG_TIMEOUT == 1
\* the clock is kept within 0..MaxNow: past MaxNow the epoch moves instead
MaxNow == PONG_TIMEOUT + 1

Sessions == 1..NSess
RoomIds == {"X", "Y"}
ClientIds == {"a", "b"}
Names == {"n1"}

NoClient == "none"  \* ws.data.clientId === null
NoTimer == 0        \* disconnectTimeout === null
Null == "null"      \* passwordHash === null
NoRoom == [exists |-> FALSE, clients |-> <<>>, passwordHash |-> Null]

\* TransferClient: what a peer advertises on join / leave.  The frames tried
\* are those of a client "a" that sets or omits resume and of a client "b"
\* that omits it; a leave carries no resume flag.
TransferClient == [clientId : ClientIds, name : Names, resume : BOOLEAN]
Descriptors == {d \in TransferClient : d.resume => d.clientId = "a"}
LeaveDescriptors == {d \in Descriptors : ~d.resume}
NoDesc == [clientId |-> NoClient, name |-> "n1", resume |-> FALSE]

\* A setTimeout closure of handleClose.  It captures the Room object and the
\* ClientData object, not their keys: roomLive / live tell whether the captured
\* object is still the one in the map; once the ClientData object has left the
\* map nothing can change it, and client / session hold its last field values.
Unarmed == [armed |-> FALSE, roomId |-> "X", roomLive |-> FALSE,
            clientId |-> NoClient, live |-> FALSE, client |-> NoDesc, session |-> 0]

VARIABLES
    rooms,      \* roomId -> Room or NoRoom            (the rooms Map)
    sess,       \* session -> its readyState and ws.data
    timers,     \* timer id -> the pending setTimeout closure, or Unarmed
    out,        \* session -> the frames the last handler wrote to it with
                \* ws.send, in order
    nopen,      \* number of connections accepted so far
    credit,     \* number of inbound frames the run still accepts
    now,        \* Date.now()
    last,       \* the handler that ran last
    hist,       \* history, kept by the specifications that turn it on:
                \*   inbox    session -> every frame written to it, in order
                \*   pred     session -> the sessions whose record it took over
                \*   resumed  pending timers whose record a resume join has
                \*            rebound since they were armed
    bus         \* the deployment of two server processes on a pub/sub bus,
                \* used by the specifications of the distribution bridge:
                \*   inst  instance -> its state
                \*   chan  instance -> the envelopes published on the bus
                \*         that it has still to consume, oldest first

vars == <<rooms, sess, timers, out, nopen, credit, now, last, hist, bus>>

\* ---------------------------------------------------------------- envelopes
ConnectedMsg(hash) == [type |-> "connected", data |-> hash]
JoinMsg(client) == [type |-> "join", data |-> client]
LeaveMsg(client) == [type |-> "leave", data |-> client]
MessageMsg(data) == [type |-> "message", data |-> data]
PingMsg == [type |-> "ping"]

\* ------------------------------------------------------------ Map<ClientID,_>
\* room.clients is a Map: iteration in insertion order, one entry per key.
\* It is kept as the sequence of its values in insertion order.
Idx(clients, id) ==
    IF \E i \in DOMAIN clients : clients[i].client.clientId = id
    THEN CHOOSE i \in DOMAIN clients :
            /\ clients[i].client.clientId = id
            /\ \A j \in DOMAIN clients : clients[j].client.clientId = id => i <= j
    ELSE 0

Has(clients, id) == Idx(clients, id) # 0

\* ws.data.clientId || "": the key a handler looks the sender's record up
\* with, which is the empty string for a session that has not joined
EmptyId == ""
Key(id) == IF id = NoClient THEN EmptyId ELSE id

MapSet(clients, rec) ==
    IF Has(clients, rec.client.clientId)
    THEN [clients EXCEPT ![Idx(clients, rec.client.clientId)] = rec]
    ELSE Append(clients, rec)

MapDelete(clients, id) ==
    SelectSeq(clients, LAMBDA r : r.client.clientId # id)

IsOpen(st, s) == st.sess[s].state = "open"

\* room.clients.get(id) in a handler's state, for an id the room has
RecordOf(st, roomId, id) ==
    st.rooms[roomId].clients[Idx(st.rooms[roomId].clients, id)]

Send(st, s, msg) == [st EXCEPT !.out[s] = Append(@, msg)]

RECURSIVE SendAll(_, _, _)
SendAll(st, s, msgs) ==
    IF msgs = <<>> THEN st
    ELSE SendAll(Send(st, s, Head(msgs)), s, Tail(msgs))

\* ------------------------------------------------------------------- state
\* no handler wrote anything
Silent == [s \in Sessions |-> <<>>]

\* what a handler starts from: the program state, and nothing written yet
State == [rooms |-> rooms, sess |-> sess, timers |-> timers,
          out |-> [s \in Sessions |-> <<>>], now |-> now]

\* the server processes of a deployment on one bus
Instances == {1, 2}

\* an instance right after start: the state of one server process, the
\* subscriptions it has asked for (pending) and holds (subs), and what its
\* last handler published (pub)
Inst0 ==
    [rooms |-> [r \in RoomIds |-> NoRoom],
     sess |-> [s \in Sessions |->
                [state |-> "idle", roomId |-> "X", passwordHash |-> "",
                 clientId |-> NoClient]],
     timers |-> [t \in Sessions |-> Unarmed],
     out |-> Silent,
     now |-> 0,
     pending |-> {},
     subs |-> {},
     pub |-> <<>>]

Bus0 == [inst |-> [I \in Instances |-> Inst0],
         chan |-> [I \in Instances |-> <<>>]]

NoHist == [on |-> FALSE, inbox |-> [s \in Sessions |-> <<>>],
           pred |-> [s \in Sessions |-> {}], resumed |-> {}]

Boot ==
    /\ rooms = [r \in RoomIds |-> NoRoom]
    /\ sess = [s \in Sessions |->
                [state |-> "idle", roomId |-> "X", passwordHash |-> "",
                 clientId |-> NoClient]]
    /\ timers = [t \in Sessions |-> Unarmed]
    /\ out = [s \in Sessions |-> <<>>]
    /\ bus = Bus0
    /\ nopen = 0
    /\ now = 0
    /\ last = "init"

Init ==
    /\ Boot
    /\ credit = MaxFrames
    /\ hist = NoHist

\* the same start with one inbound frame less
InitBeat ==
    /\ Boot
    /\ credit = MaxFrames - 1
    /\ hist = NoHist

\* the same start with the history on and one more inbound frame
InitHist ==
    /\ Boot
    /\ credit = MaxFrames + 1
    /\ hist = [NoHist EXCEPT !.on = TRUE]

Commit(st) ==
    /\ rooms' = st.rooms
    /\ sess' = st.sess
    /\ timers' = st.timers
    /\ out' = st.out

\* the history after a step that leaves pred as p and resumed within r
Hist(p, r) ==
    hist' = IF hist.on
            THEN [on |-> TRUE,
                  inbox |-> [s \in Sessions |-> hist.inbox[s] \o out'[s]],
                  pred |-> p,
                  resumed |-> {t \in r : timers'[t].armed}]
            ELSE hist

\* a step of handler op that rebinds no record
Note(op) ==
    /\ last' = op
    /\ Hist(hist.pred, hist.resumed)

\* --------------------------------------------------------------------- open
\* OpenHandler answering with the pwd the connection itself supplied
OpenHandler_Echo(st, s) ==
    LET roomId == st.sess[s].roomId
        st1 == IF ~st.rooms[roomId].exists
               THEN [st EXCEPT !.rooms[roomId] =
                        [exists |-> TRUE, clients |-> <<>>,
                         passwordHash |-> IF st.sess[s].passwordHash = ""
                                          THEN Null
                                          ELSE st.sess[s].passwordHash]]
               ELSE st
    IN Send(st1, s, ConnectedMsg(IF st.sess[s].passwordHash = ""
                                 THEN Null ELSE st.sess[s].passwordHash))

\* websocket.open: create the room on first connection, send "connected"
OpenHandler(st, s) ==
    LET roomId == st.sess[s].roomId
        st1 == IF ~st.rooms[roomId].exists
               THEN [st EXCEPT !.rooms[roomId] =
                        [exists |-> TRUE, clients |-> <<>>,
                         passwordHash |-> IF st.sess[s].passwordHash = ""
                                          THEN Null
                                          ELSE st.sess[s].passwordHash]]
               ELSE st
    IN Send(st1, s, ConnectedMsg(st1.rooms[roomId].passwordHash))

\* fetch + server.upgrade + websocket.open for the next connection
Open(roomId, pwd) ==
    /\ nopen < NSess
    /\ LET s == nopen + 1
           st0 == [State EXCEPT !.sess[s] =
                      [state |-> "open", roomId |-> roomId,
                       passwordHash |-> pwd, clientId |-> NoClient]]
       IN Commit(OpenHandler(st0, s))
    /\ nopen' = nopen + 1
    /\ Note("open")
    /\ UNCHANGED <<bus, credit, now>>

\* -------------------------------------------------------------------- close
\* handleClose: arm the grace timer of the record named by ws.data.clientId.
\* The timer id is the closing session (each session closes once).
HandleClose(st, ws) ==
    LET roomId == st.sess[ws].roomId
        room == st.rooms[roomId]
        i == Idx(room.clients, Key(st.sess[ws].clientId))
    IN IF ~room.exists THEN st
       ELSE IF i = 0 THEN st
       ELSE [st EXCEPT
                !.rooms[roomId].clients[i].disconnectTimeout = ws,
                !.timers[ws] = [armed |-> TRUE, roomId |-> roomId, roomLive |-> TRUE,
                                clientId |-> room.clients[i].client.clientId,
                                live |-> TRUE, client |-> NoDesc, session |-> 0]]

\* ws.close(): nothing on a socket that is not open; otherwise the socket
\* stops being OPEN and websocket.close runs
CloseSocket(st, ws) ==
    IF IsOpen(st, ws)
    THEN HandleClose([st EXCEPT !.sess[ws].state = "closed"], ws)
    ELSE st

ClearTimeout(st, t) ==
    IF t = NoTimer THEN st ELSE [st EXCEPT !.timers[t] = Unarmed]

\* the ClientData object rec leaves room.clients: closures holding it keep
\* reading the fields it had
Detach(st, roomId, rec) ==
    [st EXCEPT !.timers = [t \in Sessions |->
        IF /\ st.timers[t].armed
           /\ st.timers[t].roomLive
           /\ st.timers[t].live
           /\ st.timers[t].roomId = roomId
           /\ st.timers[t].clientId = rec.client.clientId
        THEN [st.timers[t] EXCEPT !.live = FALSE, !.client = rec.client,
                                  !.session = rec.session]
        ELSE st.timers[t]]]

\* rooms.delete(roomId): closures holding the Room object keep an object that
\* is no longer in the map
RoomsDelete(st, roomId) ==
    [st EXCEPT !.rooms[roomId] = NoRoom,
               !.timers = [t \in Sessions |->
                   IF st.timers[t].armed /\ st.timers[t].roomId = roomId
                   THEN [st.timers[t] EXCEPT !.roomLive = FALSE]
                   ELSE st.timers[t]]]

\* -------------------------------------------------------------------- leave
\* LeaveFanOut without the cache: the leave goes to open sessions only
RECURSIVE LeaveFanOut_OpenOnly(_, _, _, _)
LeaveFanOut_OpenOnly(st, roomId, i, msg) ==
    IF i > Len(st.rooms[roomId].clients) THEN st
    ELSE LET target == st.rooms[roomId].clients[i]
             st1 == IF IsOpen(st, target.session)
                    THEN Send(st, target.session, msg)
                    ELSE st
         IN LeaveFanOut_OpenOnly(st1, roomId, i + 1, msg)

\* the forEach of handleLeave, from entry i on: write the leave envelope to
\* an open session, push it on the cache otherwise
RECURSIVE LeaveFanOut(_, _, _, _)
LeaveFanOut(st, roomId, i, msg) ==
    IF i > Len(st.rooms[roomId].clients) THEN st
    ELSE LET target == st.rooms[roomId].clients[i]
             st1 == IF IsOpen(st, target.session)
                    THEN Send(st, target.session, msg)
                    ELSE [st EXCEPT !.rooms[roomId].clients[i].messageCache =
                                        Append(@, msg)]
         IN LeaveFanOut(st1, roomId, i + 1, msg)

\* handleLeave(room, client, ws); the Room object is the one of roomId when
\* roomLive, and otherwise one that was removed from the map when it was empty
HandleLeave(st, roomId, roomLive, client, ws) ==
    LET clients == IF roomLive THEN st.rooms[roomId].clients ELSE <<>>
        i == Idx(clients, client.clientId)
    IN IF i = 0 THEN st
       ELSE
        LET clientData == clients[i]
            st1 == ClearTimeout(st, clientData.disconnectTimeout)
            st2 == Detach([st1 EXCEPT !.rooms[roomId].clients =
                                MapDelete(@, client.clientId)],
                          roomId, clientData)
            st3 == LeaveFanOut(st2, roomId, 1, LeaveMsg(client))
            st4 == IF Len(st3.rooms[roomId].clients) = 0
                   THEN RoomsDelete(st3, st3.sess[ws].roomId)
                   ELSE st3
        IN CloseSocket(st4, ws)

\* --------------------------------------------------------------------- join
\* Roster without the records in their grace period
Roster_OpenOnly(clients) ==
    LET live == SelectSeq(clients, LAMBDA r : r.disconnectTimeout = NoTimer)
    IN [i \in DOMAIN live |-> JoinMsg(live[i].client)]

\* "send join message to new client": one join envelope per record
Roster(clients) == [i \in DOMAIN clients |-> JoinMsg(clients[i].client)]

\* "send join message to other clients", from entry i on
RECURSIVE JoinFanOut(_, _, _, _, _)
JoinFanOut(st, roomId, i, msg, ws) ==
    IF i > Len(st.rooms[roomId].clients) THEN st
    ELSE LET clientData == st.rooms[roomId].clients[i]
             st1 == IF clientData.session = ws THEN st
                    ELSE IF IsOpen(st, clientData.session)
                    THEN Send(st, clientData.session, msg)
                    ELSE [st EXCEPT !.rooms[roomId].clients[i].messageCache =
                                        Append(@, msg)]
         IN JoinFanOut(st1, roomId, i + 1, msg, ws)

\* Rebind, sending the cached envelopes newest first
Rebind_Lifo(st, roomId, i, ws) ==
    LET existingClient == st.rooms[roomId].clients[i]
        cache == existingClient.messageCache
        st1 == ClearTimeout(st, existingClient.disconnectTimeout)
        st2 == [st1 EXCEPT !.rooms[roomId].clients[i] =
                    [@ EXCEPT !.disconnectTimeout = NoTimer,
                              !.session = ws,
                              !.lastPongTime = st.now]]
        st3 == SendAll(st2, ws, [k \in 1..Len(cache) |-> cache[Len(cache) + 1 - k]])
    IN [st3 EXCEPT !.rooms[roomId].clients[i].messageCache = <<>>]

\* Rebind that sends the cached envelopes and keeps them in the cache
Rebind_KeepCache(st, roomId, i, ws) ==
    LET existingClient == st.rooms[roomId].clients[i]
        st1 == ClearTimeout(st, existingClient.disconnectTimeout)
        st2 == [st1 EXCEPT !.rooms[roomId].clients[i] =
                    [@ EXCEPT !.disconnectTimeout = NoTimer,
                              !.session = ws,
                              !.lastPongTime = st.now]]
    IN SendAll(st2, ws, existingClient.messageCache)

\* the existingClient branch of handleJoin
Rebind(st, roomId, i, ws) ==
    LET existingClient == st.rooms[roomId].clients[i]
        st1 == ClearTimeout(st, existingClient.disconnectTimeout)
        st2 == [st1 EXCEPT !.rooms[roomId].clients[i] =
                    [@ EXCEPT !.disconnectTimeout = NoTimer,
                              !.session = ws,
                              !.lastPongTime = st.now]]
        st3 == SendAll(st2, ws, existingClient.messageCache)
    IN [st3 EXCEPT !.rooms[roomId].clients[i].messageCache = <<>>]

\* the rest of handleJoin: roster to the new session, join to the others,
\* then the new record
Install(st, roomId, client, ws) ==
    LET st1 == SendAll(st, ws, Roster(st.rooms[roomId].clients))
        st2 == JoinFanOut(st1, roomId, 1, JoinMsg(client), ws)
    IN [st2 EXCEPT !.rooms[roomId].clients =
            MapSet(@, [client |-> client, session |-> ws,
                       lastPongTime |-> st.now,
                       disconnectTimeout |-> NoTimer,
                       messageCache |-> <<>>])]

\* handleJoin adding a record without looking the id up
HandleJoin_Push(st, roomId, client, ws) ==
    LET st1 == [st EXCEPT !.sess[ws].clientId = client.clientId]
        st2 == SendAll(st1, ws, Roster(st.rooms[roomId].clients))
        st3 == JoinFanOut(st2, roomId, 1, JoinMsg(client), ws)
    IN [st3 EXCEPT !.rooms[roomId].clients =
            Append(@, [client |-> client, session |-> ws,
                       lastPongTime |-> st.now,
                       disconnectTimeout |-> NoTimer,
                       messageCache |-> <<>>])]

HandleJoin(st, roomId, client, ws) ==
    LET i == Idx(st.rooms[roomId].clients, client.clientId)
        st1 == [st EXCEPT !.sess[ws].clientId = client.clientId]
    IN IF i # 0 THEN Rebind(st1, roomId, i, ws)
       ELSE Install(st1, roomId, client, ws)

\* ------------------------------------------------------------------ message
\* HandleMessage without the test that keeps the sender's own session out
HandleMessage_Echo(st, roomId, data, ws) ==
    LET clients == st.rooms[roomId].clients
        t == Idx(clients, data.targetClientId)
        c == Idx(clients, Key(st.sess[ws].clientId))
    IN IF c = 0 THEN st
       ELSE IF t # 0 /\ IsOpen(st, clients[t].session)
       THEN Send(st, clients[t].session, MessageMsg(data))
       ELSE st

\* HandleMessage looking the target up in the sender's room first and in
\* the other rooms next
HandleMessage_AnyRoom(st, roomId, data, ws) ==
    LET holders == {r \in RoomIds : Has(st.rooms[r].clients, data.targetClientId)}
        home == IF roomId \in holders THEN roomId
                ELSE CHOOSE r \in holders : TRUE
        c == Idx(st.rooms[roomId].clients, Key(st.sess[ws].clientId))
    IN IF c = 0 \/ holders = {} THEN st
       ELSE LET target == RecordOf(st, home, data.targetClientId)
            IN IF target.session # ws /\ IsOpen(st, target.session)
               THEN Send(st, target.session, MessageMsg(data))
               ELSE st

HandleMessage(st, roomId, data, ws) ==
    LET clients == st.rooms[roomId].clients
        t == Idx(clients, data.targetClientId)
        c == Idx(clients, Key(st.sess[ws].clientId))
    IN IF c = 0 THEN st
       ELSE IF /\ t # 0
               /\ clients[t].session # ws
               /\ IsOpen(st, clients[t].session)
       THEN Send(st, clients[t].session, MessageMsg(data))
       ELSE st

\* --------------------------------------------------------- websocket.message
\* An inbound frame: json tells whether JSON.parse accepts it, type is
\* signal.type ("" when the frame has none) and hasData whether signal.data
\* is there.
RawSignal(type, hasData, data) ==
    [json |-> TRUE, type |-> type, hasData |-> hasData, data |-> data]

NotJson == [json |-> FALSE, type |-> "", hasData |-> FALSE, data |-> NoDesc]

\* the liveness frames: the answer to a ping, and a ping sent by the peer
LiveSignals == {RawSignal(t, FALSE, NoDesc) : t \in {"ping", "pong"}}

\* the frames that are dropped: no JSON, no type, an unknown type, and a
\* join, leave or message without data
BadSignals ==
    {NotJson} \cup
    {RawSignal(t, FALSE, NoDesc) : t \in {"", "bogus", "join", "leave", "message"}}

\* the "pong" branch: refresh the record ws.data.clientId names
Pong(st, roomId, ws) ==
    LET i == Idx(st.rooms[roomId].clients, Key(st.sess[ws].clientId))
    IN IF i = 0 THEN st
       ELSE [st EXCEPT !.rooms[roomId].clients[i].lastPongTime = st.now]

\* Message closing the socket on a frame it cannot handle
Message_Strict(st, ws, signal) ==
    LET roomId == st.sess[ws].roomId
    IN IF ~signal.json THEN CloseSocket(st, ws)
       ELSE IF ~st.rooms[roomId].exists THEN st
       ELSE IF signal.type = "pong" THEN Pong(st, roomId, ws)
       ELSE IF signal.type \in {"join", "message", "leave"} /\ ~signal.hasData
            THEN CloseSocket(st, ws)
       ELSE IF signal.type = "join"
            THEN HandleJoin(st, roomId, signal.data, ws)
       ELSE IF signal.type = "message"
            THEN HandleMessage(st, roomId, signal.data, ws)
       ELSE IF signal.type = "leave"
            THEN HandleLeave(st, roomId, TRUE, signal.data, ws)
       ELSE CloseSocket(st, ws)

\* websocket.message.  JSON.parse throws on a frame that is no JSON, and a
\* handler throws on its first statement, which reads a property of the
\* missing data; the catch clause logs, so the frame changes nothing.
Message(st, ws, signal) ==
    LET roomId == st.sess[ws].roomId
    IN IF ~signal.json THEN st
       ELSE IF ~st.rooms[roomId].exists THEN st
       ELSE IF signal.type = "pong" THEN Pong(st, roomId, ws)
       ELSE IF signal.type \in {"join", "message", "leave"} /\ ~signal.hasData
            THEN st
       ELSE IF signal.type = "join"
            THEN HandleJoin(st, roomId, signal.data, ws)
       ELSE IF signal.type = "message"
            THEN HandleMessage(st, roomId, signal.data, ws)
       ELSE IF signal.type = "leave"
            THEN HandleLeave(st, roomId, TRUE, signal.data, ws)
       ELSE st

\* ---------------------------------------------------------------- heartbeat
\* the callback of setInterval, for the records of one room from entry i on
\* Sweep buffering the ping of a session that is not open
RECURSIVE Sweep_Cache(_, _, _)
Sweep_Cache(st, roomId, i) ==
    IF i > Len(st.rooms[roomId].clients) THEN st
    ELSE LET clientData == st.rooms[roomId].clients[i]
             st1 == IF ~IsOpen(st, clientData.session)
                    THEN [st EXCEPT !.rooms[roomId].clients[i].messageCache =
                                        Append(@, PingMsg)]
                    ELSE IF st.now - clientData.lastPongTime > PONG_TIMEOUT
                    THEN CloseSocket(st, clientData.session)
                    ELSE Send(st, clientData.session, PingMsg)
         IN Sweep_Cache(st1, roomId, i + 1)

RECURSIVE Sweep(_, _, _)
Sweep(st, roomId, i) ==
    IF i > Len(st.rooms[roomId].clients) THEN st
    ELSE LET clientData == st.rooms[roomId].clients[i]
             st1 == IF ~IsOpen(st, clientData.session) THEN st
                    ELSE IF st.now - clientData.lastPongTime > PONG_TIMEOUT
                    THEN CloseSocket(st, clientData.session)
                    ELSE Send(st, clientData.session, PingMsg)
         IN Sweep(st1, roomId, i + 1)

\* rooms.forEach: a room's sweep touches that room only, so the order of
\* the rooms does not show
SweepAll(st) == Sweep(Sweep(st, "X", 1), "Y", 1)

\* ------------------------------------------------------------------ actions
\* the room websocket.message finds for ws, and the record of a client in it
RoomOf(ws) == rooms[sess[ws].roomId]
Known(ws, clientId) == RoomOf(ws).exists /\ Has(RoomOf(ws).clients, clientId)
Record(ws, clientId) == RoomOf(ws).clients[Idx(RoomOf(ws).clients, clientId)]

\* the pending timers that hold the record of clientId in the room of ws
Pending(ws, clientId) ==
    {t \in Sessions : /\ timers[t].armed
                      /\ timers[t].roomLive
                      /\ timers[t].live
                      /\ timers[t].roomId = sess[ws].roomId
                      /\ timers[t].clientId = clientId}

\* websocket.message with a "join" frame
RecvJoin(ws, client) ==
    /\ sess[ws].state = "open"
    /\ credit > 0
    /\ credit' = credit - 1
    /\ IF ~RoomOf(ws).exists THEN Commit(State)
       ELSE Commit(HandleJoin(State, sess[ws].roomId, client, ws))
    /\ LET hit == Known(ws, client.clientId)
       IN /\ last' = IF ~hit THEN "join"
                  ELSE IF client.resume THEN "resume" ELSE "rebind"
          /\ Hist(IF hit /\ Record(ws, client.clientId).session # ws
                  THEN [hist.pred EXCEPT ![ws] =
                          @ \cup {Record(ws, client.clientId).session}
                            \cup hist.pred[Record(ws, client.clientId).session]]
                  ELSE hist.pred,
                  hist.resumed \cup (IF hit /\ client.resume
                                     THEN Pending(ws, client.clientId)
                                     ELSE {}))
    /\ UNCHANGED <<bus, nopen, now>>

\* websocket.message with a "leave" frame
RecvLeave(ws, client) ==
    /\ sess[ws].state = "open"
    /\ credit > 0
    /\ credit' = credit - 1
    /\ IF ~RoomOf(ws).exists THEN Commit(State)
       ELSE Commit(HandleLeave(State, sess[ws].roomId, TRUE, client, ws))
    /\ Note("leave")
    /\ UNCHANGED <<bus, nopen, now>>

\* websocket.message with a "message" frame.  The payload carries the
\* sender's clientId and the target; src tells which connection the frame
\* came in on.
Payload(ws, target) ==
    [clientId |-> sess[ws].clientId, targetClientId |-> target, src |-> ws]

RecvMessage(ws, target) ==
    /\ sess[ws].state = "open"
    /\ credit > 0
    /\ credit' = credit - 1
    /\ IF ~RoomOf(ws).exists THEN Commit(State)
       ELSE Commit(HandleMessage(State, sess[ws].roomId, Payload(ws, target), ws))
    /\ Note("message")
    /\ UNCHANGED <<bus, nopen, now>>

\* the peer closes the connection or the connection drops
Close(ws) ==
    /\ sess[ws].state = "open"
    /\ Commit(CloseSocket(State, ws))
    /\ Note("close")
    /\ UNCHANGED <<bus, nopen, credit, now>>

\* the ClientData object the closure of timer t holds
Captured(t) ==
    IF timers[t].roomLive /\ timers[t].live
    THEN LET cl == rooms[timers[t].roomId].clients
         IN cl[Idx(cl, timers[t].clientId)]
    ELSE [client |-> timers[t].client, session |-> timers[t].session]

\* the callback of setTimeout(..., DISCONNECT_TIMEOUT) runs
TimerFire(t) ==
    /\ timers[t].armed
    /\ LET st == [State EXCEPT !.timers[t] = Unarmed]
       IN Commit(HandleLeave(st, timers[t].roomId, timers[t].roomLive,
                             Captured(t).client, Captured(t).session))
    /\ Note("timer")
    /\ UNCHANGED <<bus, nopen, credit, now>>

\* websocket.message with a frame that is no well-formed join, leave or
\* message
RecvSignal(ws, signal) ==
    /\ sess[ws].state = "open"
    /\ credit > 0
    /\ credit' = credit - 1
    /\ Commit(Message(State, ws, signal))
    /\ Note(IF signal.json /\ signal.type \in {"ping", "pong"}
            THEN signal.type ELSE "bad")
    /\ UNCHANGED <<bus, nopen, now>>

\* the callback of setInterval(..., HEARTBEAT_INTERVAL) runs
Heartbeat ==
    /\ Commit(SweepAll(State))
    /\ Note("beat")
    /\ UNCHANGED <<bus, nopen, credit, now>>

\* Date.now() advances by one tick.  At MaxNow the epoch advances with it:
\* every lastPongTime moves back by one, and one that is at 0 is older than
\* PONG_TIMEOUT already and stays there.
Tick ==
    /\ IF now < MaxNow
       THEN now' = now + 1 /\ rooms' = rooms
       ELSE /\ now' = now
            /\ rooms' = [r \in RoomIds |->
                  [rooms[r] EXCEPT !.clients =
                     [i \in DOMAIN rooms[r].clients |->
                        [rooms[r].clients[i] EXCEPT !.lastPongTime =
                            IF @ > 0 THEN @ - 1 ELSE 0]]]]
    /\ sess' = sess
    /\ timers' = timers
    /\ out' = Silent
    /\ Note("tick")
    /\ UNCHANGED <<bus, nopen, credit>>

\* every handler but open
\* ------------------------------------------------------ distribution bridge
\* The bridge and the router's use of it are taken from the specification
\* (sections 4.2, 4.5 and 4.7); the handlers they wrap are the ones above.

\* subscribe(roomId): fire-and-forget; the room enters the subscription set
\* on confirmation
Subscribe(st, roomId) ==
    IF roomId \in st.subs THEN st
    ELSE [st EXCEPT !.pending = @ \cup {roomId}]

\* unsubscribe(roomId): idempotent
Unsubscribe(st, roomId) ==
    [st EXCEPT !.subs = @ \ {roomId}, !.pending = @ \ {roomId}]

\* Publish without the gate of the subscription set
Publish_Ungated(st, roomId, env) ==
    [st EXCEPT !.pub = Append(@, [roomId |-> roomId, env |-> env])]

\* publish(roomId, envelope): no-op unless roomId is in the subscription set
Publish(st, roomId, env) ==
    IF roomId \in st.subs
    THEN [st EXCEPT !.pub = Append(@, [roomId |-> roomId, env |-> env])]
    ELSE st

\* get-or-create room on open: a room that is created registers a
\* subscription
BridgedOpen(st, s) ==
    LET roomId == st.sess[s].roomId
        st1 == OpenHandler(st, s)
    IN IF st.rooms[roomId].exists THEN st1 ELSE Subscribe(st1, roomId)

\* destroy room if empty: a room that left the map is unsubscribed
Destroyed(st, st1, roomId) ==
    IF st.rooms[roomId].exists /\ ~st1.rooms[roomId].exists
    THEN Unsubscribe(st1, roomId)
    ELSE st1

\* router, join from a local session: a join that installs a record is
\* fanned out and published
RouteJoin(st, roomId, client, ws) ==
    LET st1 == HandleJoin(st, roomId, client, ws)
    IN IF Has(st.rooms[roomId].clients, client.clientId) THEN st1
       ELSE Publish(st1, roomId, JoinMsg(client))

\* router, leave from a local session or a local grace timer: a leave that
\* evicts a record is fanned out and published, and then the room is
\* destroyed if it is empty
RouteLeave(st, roomId, roomLive, client, ws) ==
    LET st1 == HandleLeave(st, roomId, roomLive, client, ws)
        st2 == IF roomLive /\ Has(st.rooms[roomId].clients, client.clientId)
               THEN Publish(st1, roomId, LeaveMsg(client))
               ELSE st1
    IN Destroyed(st, st2, roomId)

\* RouteMessage that never publishes
RouteMessage_LocalOnly(st, roomId, data, ws) ==
    HandleMessage(st, roomId, data, ws)

\* router, message from a local session: with no local record for the
\* target the message is published
RouteMessage(st, roomId, data, ws) ==
    LET clients == st.rooms[roomId].clients
        st1 == HandleMessage(st, roomId, data, ws)
    IN IF /\ Has(clients, Key(st.sess[ws].clientId))
          /\ ~Has(clients, data.targetClientId)
       THEN Publish(st1, roomId, MessageMsg(data))
       ELSE st1

\* router, message from the bus: written to the target's session if it is
\* open, cached on the target's record otherwise, dropped without a record
RemoteMessage(st, roomId, env) ==
    LET clients == st.rooms[roomId].clients
        t == Idx(clients, env.data.targetClientId)
    IN IF t = 0 THEN st
       ELSE IF IsOpen(st, clients[t].session)
       THEN Send(st, clients[t].session, env)
       ELSE [st EXCEPT !.rooms[roomId].clients[t].messageCache =
                            Append(@, env)]

\* Inbound publishing what it consumed once more
Inbound_Republish(st, roomId, env) ==
    IF ~st.rooms[roomId].exists THEN st
    ELSE LET st1 == IF env.type = "join"
                    THEN JoinFanOut(st, roomId, 1, env, 0)
                    ELSE IF env.type = "leave"
                    THEN LeaveFanOut(st, roomId, 1, env)
                    ELSE RemoteMessage(st, roomId, env)
         IN Publish(st1, roomId, env)

\* inbound(roomId, envelope): the envelope re-enters the router with
\* local = false and no originating session; a missing room drops it
Inbound(st, roomId, env) ==
    IF ~st.rooms[roomId].exists THEN st
    ELSE IF env.type = "join" THEN JoinFanOut(st, roomId, 1, env, 0)
    ELSE IF env.type = "leave" THEN LeaveFanOut(st, roomId, 1, env)
    ELSE RemoteMessage(st, roomId, env)

\* what a handler of instance I starts from
BState(I) == [bus.inst[I] EXCEPT !.out = Silent, !.pub = <<>>]

\* the envelopes of pub that reach instance K: the bus hands an envelope to
\* the instances that are subscribed to its channel when it is published
Reaching(pub, K) ==
    SelectSeq(pub, LAMBDA p : p.roomId \in bus.inst[K].subs)

\* instance I ends a handler in state st, having consumed the first n
\* envelopes the bus held for it; what it published is queued for the other
\* instances
BusCommit(I, st, n) ==
    /\ bus' = [inst |-> [K \in Instances |-> IF K = I THEN st ELSE BState(K)],
               chan |-> [K \in Instances |->
                          IF K = I
                          THEN SubSeq(bus.chan[K], n + 1, Len(bus.chan[K]))
                          ELSE bus.chan[K] \o Reaching(st.pub, K)]]
    /\ UNCHANGED <<rooms, sess, timers, out, now, hist>>

\* the instance that accepted session ws
Hosts(I, ws) == bus.inst[I].sess[ws].state = "open"

\* a connection is accepted by instance I; the connections go to the
\* instances in turn
BusOpen(I) ==
    /\ nopen < NSess - 1
    /\ I = (nopen % 2) + 1
    /\ LET s == nopen + 1
           st0 == [BState(I) EXCEPT !.sess[s] =
                      [state |-> "open", roomId |-> "X",
                       passwordHash |-> "", clientId |-> NoClient]]
       IN BusCommit(I, BridgedOpen(st0, s), 0)
    /\ nopen' = nopen + 1
    /\ last' = "bus"
    /\ UNCHANGED credit

\* a frame of a session of instance I; routed is what the router makes of it
BusFrame(I, ws, routed) ==
    /\ Hosts(I, ws)
    /\ credit > 0
    /\ credit' = credit - 1
    /\ IF ~BState(I).rooms[BState(I).sess[ws].roomId].exists
       THEN BusCommit(I, BState(I), 0)
       ELSE BusCommit(I, routed, 0)
    /\ last' = "bus"
    /\ UNCHANGED nopen

BusJoin(I, ws, client) ==
    BusFrame(I, ws,
             RouteJoin(BState(I), BState(I).sess[ws].roomId, client, ws))

BusLeave(I, ws, client) ==
    BusFrame(I, ws,
             RouteLeave(BState(I), BState(I).sess[ws].roomId, TRUE, client, ws))

BusMessage(I, ws, target) ==
    BusFrame(I, ws,
             RouteMessage(BState(I), BState(I).sess[ws].roomId,
                          [clientId |-> BState(I).sess[ws].clientId,
                           targetClientId |-> target, src |-> ws], ws))

\* a connection of instance I closes
BusClose(I, ws) ==
    /\ Hosts(I, ws)
    /\ BusCommit(I, CloseSocket(BState(I), ws), 0)
    /\ last' = "bus"
    /\ UNCHANGED <<nopen, credit>>

\* a grace timer of instance I fires
BusTimerFire(I, t) ==
    /\ bus.inst[I].timers[t].armed
    /\ LET tm == bus.inst[I].timers[t]
           cl == bus.inst[I].rooms[tm.roomId].clients
           held == IF tm.roomLive /\ tm.live
                   THEN cl[Idx(cl, tm.clientId)]
                   ELSE [client |-> tm.client, session |-> tm.session]
           st == [BState(I) EXCEPT !.timers[t] = Unarmed]
       IN BusCommit(I, RouteLeave(st, tm.roomId, tm.roomLive,
                                  held.client, held.session), 0)
    /\ last' = "bus"
    /\ UNCHANGED <<nopen, credit>>

\* the bus confirms a subscription of instance I
SubConfirm(I, roomId) ==
    /\ roomId \in bus.inst[I].pending
    /\ BusCommit(I, [BState(I) EXCEPT !.pending = @ \ {roomId},
                                      !.subs = @ \cup {roomId}], 0)
    /\ last' = "bus"
    /\ UNCHANGED <<nopen, credit>>

\* instance I consumes the oldest envelope the bus holds for it
Consume(I) ==
    /\ bus.chan[I] # <<>>
    /\ LET p == Head(bus.chan[I])
       IN BusCommit(I, Inbound(BState(I), p.roomId, p.env), 1)
    /\ last' = "bus"
    /\ UNCHANGED <<nopen, credit>>

NextBus ==
    \/ \E I \in Instances : BusOpen(I)
    \/ \E I \in Instances, ws \in Sessions, client \in LeaveDescriptors :
        BusJoin(I, ws, client)
    \/ \E I \in Instances, ws \in Sessions, client \in LeaveDescriptors :
        BusLeave(I, ws, client)
    \/ \E I \in Instances, ws \in Sessions, target \in ClientIds :
        BusMessage(I, ws, target)
    \/ \E I \in Instances, ws \in Sessions : BusClose(I, ws)
    \/ \E I \in Instances, t \in Sessions : BusTimerFire(I, t)
    \/ \E I \in Instances : SubConfirm(I, "X")
    \/ \E I \in Instances : Consume(I)

SpecBus == InitBeat /\ [][NextBus]_vars

\* the deployment without connection drops; the bus hands every envelope it
\* holds to its subscriber in the end
NextBusLive ==
    \/ \E I \in Instances : BusOpen(I)
    \/ \E I \in Instances, ws \in Sessions, client \in LeaveDescriptors :
        BusJoin(I, ws, client)
    \/ \E I \in Instances, ws \in Sessions, client \in LeaveDescriptors :
        BusLeave(I, ws, client)
    \/ \E I \in Instances, ws \in Sessions, target \in ClientIds :
        BusMessage(I, ws, target)
    \/ \E I \in Instances : SubConfirm(I, "X")
    \/ \E I \in Instances : Consume(I)

SpecBusLive ==
    /\ Init
    /\ [][NextBusLive]_vars
    /\ \A I \in Instances : WF_vars(Consume(I))

Handlers ==
    \/ \E ws \in Sessions, client \in Descriptors : RecvJoin(ws, client)
    \/ \E ws \in Sessions, client \in LeaveDescriptors : RecvLeave(ws, client)
    \/ \E ws \in Sessions, target \in ClientIds : RecvMessage(ws, target)
    \/ \E ws \in Sessions : Close(ws)
    \/ \E t \in Sessions : TimerFire(t)

\* one room, no password
Next ==
    \/ Open("X", "")
    \/ Handlers

Spec == Init /\ [][Next]_vars

\* the same handlers, with the history
SpecHist == InitHist /\ [][Next]_vars

\* two rooms, no password: the connections go to room X and room Y in turn
NextRooms ==
    \/ Open(IF nopen % 2 = 0 THEN "X" ELSE "Y", "")
    \/ Handlers

SpecRooms == Init /\ [][NextRooms]_vars

\* one room: the connections supply the pwd "h1" and no pwd in turn
NextPwd ==
    \/ Open("X", IF nopen % 2 = 0 THEN "h1" ELSE "")
    \/ Handlers

SpecPwd == Init /\ [][NextPwd]_vars

\* the first connector supplies a password hash and the later ones none;
\* the history keeps what each session was sent
NextRecreate ==
    \/ Open("X", IF nopen = 0 THEN "h1" ELSE "")
    \/ Handlers

SpecRecreate == InitHist /\ [][NextRecreate]_vars

\* one room, with the frames that are dropped
NextFrames ==
    \/ Open("X", "")
    \/ Handlers
    \/ \E ws \in Sessions, signal \in BadSignals : RecvSignal(ws, signal)

SpecFrames == Init /\ [][NextFrames]_vars

\* one room, with the liveness frames, the clock and the heartbeat; no join
\* sets the resume flag, which handleJoin does not read
NextBeat ==
    \/ Open("X", "")
    \/ \E ws \in Sessions, client \in LeaveDescriptors : RecvJoin(ws, client)
    \/ \E ws \in Sessions, client \in LeaveDescriptors : RecvLeave(ws, client)
    \/ \E ws \in Sessions, target \in ClientIds : RecvMessage(ws, target)
    \/ \E ws \in Sessions : Close(ws)
    \/ \E t \in Sessions : TimerFire(t)
    \/ \E ws \in Sessions, signal \in LiveSignals : RecvSignal(ws, signal)
    \/ Heartbeat
    \/ Tick

SpecBeat == InitBeat /\ [][NextBeat]_vars

\* peers that may advertise the empty string as their clientId
AnonDescriptors ==
    {[clientId |-> c, name |-> "n1", resume |-> FALSE] : c \in {EmptyId, "a"}}

NextAnon ==
    \/ Open("X", "")
    \/ \E ws \in Sessions, client \in AnonDescriptors : RecvJoin(ws, client)
    \/ \E ws \in Sessions, client \in AnonDescriptors : RecvLeave(ws, client)
    \/ \E ws \in Sessions, target \in {EmptyId, "a"} : RecvMessage(ws, target)
    \/ \E ws \in Sessions : Close(ws)
    \/ \E t \in Sessions : TimerFire(t)

SpecAnon == Init /\ [][NextAnon]_vars

\* clients that join and then neither answer a ping nor close
NextLive ==
    \/ Open("X", "")
    \/ \E ws \in Sessions, client \in LeaveDescriptors : RecvJoin(ws, client)
    \/ \E t \in Sessions : TimerFire(t)
    \/ Heartbeat
    \/ Tick

\* the event loop runs every callback that is due: the clock advances, the
\* interval of the heartbeat keeps firing, and a pending timer fires
SpecLive ==
    /\ InitBeat
    /\ [][NextLive]_vars
    /\ WF_vars(Tick)
    /\ WF_vars(Heartbeat)
    /\ \A t \in Sessions : WF_vars(TimerFire(t))

\* --------------------------------------------------------------- well-formed
TypeOK ==
    /\ nopen \in 0..NSess
    /\ credit \in 0..(MaxFrames + 1)
    /\ now \in 0..MaxNow
    /\ \A s \in Sessions :
        /\ sess[s].state \in {"idle", "open", "closed"}
        /\ sess[s].state = "idle" <=> s > nopen
    /\ \A r \in RoomIds : \A i \in DOMAIN rooms[r].clients :
        /\ rooms[r].exists
        /\ rooms[r].clients[i].session \in Sessions
        /\ sess[rooms[r].clients[i].session].roomId = r

\* ------------------------------------------------------------------ helpers
\* the record of clientId in room roomId of a rooms map
RecordIn(rms, roomId, clientId) ==
    rms[roomId].clients[Idx(rms[roomId].clients, clientId)]

\* --------------------------------------------------------------------- C1
\* C1: once a resume join for c has arrived after a close and before the
\* grace timer armed by that close fires, the other members observe no
\* leave(c) because of that close: the firing of such a timer changes no
\* room and writes to no session.
C1_NoLeaveAfterResume ==
    [][last' = "timer" =>
        \A t \in Sessions :
          (t \in hist.resumed /\ TimerFire(t)) => (rooms' = rooms /\ out' = Silent)
      ]_vars

\* --------------------------------------------------------------------- C2
\* C2: a resume join for a client that has a record writes exactly the
\* record's cached envelopes to the joining session, in the order they were
\* cached, and leaves the cache empty and the record bound to the joining
\* session, so that whatever is routed to the client next is written after
\* them.
C2_ResumeFlushesCacheFifo ==
    [][last' = "resume" =>
        \A ws \in Sessions, client \in Descriptors :
            (/\ client.resume
             /\ Known(ws, client.clientId)
             /\ RecvJoin(ws, client))
            => /\ out'[ws] = Record(ws, client.clientId).messageCache
               /\ RecordIn(rooms', sess[ws].roomId, client.clientId).messageCache
                    = <<>>
               /\ RecordIn(rooms', sess[ws].roomId, client.clientId).session = ws
      ]_vars

\* a resume join has just rebound a record in its grace period and flushed
\* two cached envelopes to the joining session: a join and then a leave
C2_Witness ==
    /\ last = "resume"
    /\ \E s \in Sessions :
        /\ sess[s].state = "open"
        /\ Known(s, "a")
        /\ Record(s, "a").session = s
        /\ Record(s, "a").disconnectTimeout = NoTimer
        /\ Record(s, "a").messageCache = <<>>
        /\ Len(out[s]) = 2
        /\ out[s][1].type = "join"
        /\ out[s][2].type = "leave"

\* --------------------------------------------------------------------- C3
\* C3: a message from a joined client to a target whose record exists but
\* whose session is not open is appended to the target's messageCache.
C3_MessageToGraceCached ==
    [][last' = "message" =>
        \A ws \in Sessions, target \in ClientIds :
         (/\ Known(ws, sess[ws].clientId)
          /\ Known(ws, target)
          /\ sess[Record(ws, target).session].state # "open"
          /\ RecvMessage(ws, target))
         => RecordIn(rooms', sess[ws].roomId, target).messageCache =
                Append(Record(ws, target).messageCache,
                       MessageMsg(Payload(ws, target)))
      ]_vars

\* --------------------------------------------------------------------- C4
\* the join envelopes for clientId among the first n frames written to s
JoinsBefore(s, n, clientId) ==
    {j \in 1..n : /\ hist.inbox[s][j].type = "join"
                  /\ hist.inbox[s][j].data.clientId = clientId}

\* C4: a member other than c has received join(c) before any message sent
\* by c is delivered to it.  The frames a member has received are those
\* written to its session and, when it took a record over, to the sessions
\* the record was bound to before.
C4_JoinBeforeMessage ==
    \A s \in Sessions : \A i \in DOMAIN hist.inbox[s] :
        (/\ hist.inbox[s][i].type = "message"
         /\ hist.inbox[s][i].data.targetClientId # hist.inbox[s][i].data.clientId)
        => \/ JoinsBefore(s, i - 1, hist.inbox[s][i].data.clientId) # {}
           \/ \E p \in hist.pred[s] :
                JoinsBefore(p, Len(hist.inbox[p]), hist.inbox[s][i].data.clientId)
                    # {}

\* --------------------------------------------------------------------- C5
\* C5: no handler writes a message envelope to the session it came in on,
\* and no cache of a record bound to that session holds it.
C5_NeverEchoedToSender ==
    /\ \A s \in Sessions : \A i \in DOMAIN out[s] :
         out[s][i].type = "message" => out[s][i].data.src # s
    /\ \A r \in RoomIds : \A i \in DOMAIN rooms[r].clients :
         \A k \in DOMAIN rooms[r].clients[i].messageCache :
            rooms[r].clients[i].messageCache[k].type = "message" =>
                rooms[r].clients[i].messageCache[k].data.src
                    # rooms[r].clients[i].session

\* a session that joined as c has sent a message addressed to c itself; the
\* record of c is bound to another session by now, which received it, and
\* the sender received nothing
C5_Witness ==
    /\ last = "message"
    /\ \E s \in Sessions :
        /\ Len(out[s]) = 1
        /\ out[s][1].type = "message"
        /\ out[s][1].data.targetClientId = out[s][1].data.clientId
        /\ out[s][1].data.src # s
        /\ out[out[s][1].data.src] = <<>>

\* --------------------------------------------------------------------- C6
\* C6: an inbound message frame changes no room and no cache and writes at
\* most one frame: the message envelope, to the current session of the
\* record that the payload's targetClientId names in the sender's room.
C6_MessageOnlyToTarget ==
    [][last' = "message" =>
        \A ws \in Sessions, target \in ClientIds :
         RecvMessage(ws, target) =>
            /\ rooms' = rooms
            /\ \A s \in Sessions :
                 out'[s] # <<>> =>
                    /\ Known(ws, target)
                    /\ Record(ws, target).session = s
                    /\ sess[s].roomId = sess[ws].roomId
                    /\ out'[s] = <<MessageMsg(Payload(ws, target))>>
      ]_vars

\* a message was delivered to its target's session, and to no other, while
\* a connection to the other room was open
C6_Witness ==
    /\ last = "message"
    /\ \E s, o \in Sessions :
        /\ out[s] # <<>>
        /\ out[s][1].type = "message"
        /\ Known(s, out[s][1].data.targetClientId)
        /\ Record(s, out[s][1].data.targetClientId).session = s
        /\ \A x \in Sessions \ {s} : out[x] = <<>>
        /\ sess[o].roomId # sess[s].roomId
        /\ sess[o].state = "open"
        /\ RoomOf(o).exists

\* --------------------------------------------------------------------- C7
\* C7: the room map holds room r exactly when r has a client record; a room
\* that a session opened and has not joined yet is the only room allowed to
\* be empty.
C7_RoomIffRecord ==
    \A r \in RoomIds :
        (\A s \in Sessions : ~(/\ sess[s].state = "open"
                               /\ sess[s].roomId = r
                               /\ sess[s].clientId = NoClient))
        => (rooms[r].exists <=> rooms[r].clients # <<>>)

\* --------------------------------------------------------------------- C8
\* the leave envelope for client has reached the record of id in rms: it is
\* the last frame written to its open session or the last entry of its cache
LeaveReached(rms, o, roomId, id, client) ==
    LET rec == RecordIn(rms, roomId, id)
    IN IF sess[rec.session].state = "open"
       THEN o[rec.session] # <<>>
            /\ o[rec.session][Len(o[rec.session])] = LeaveMsg(client)
       ELSE rec.messageCache # <<>>
            /\ rec.messageCache[Len(rec.messageCache)] = LeaveMsg(client)

\* C8: a join without the resume flag for a clientId that has a record
\* evicts the record, fanning leave(prior descriptor) out to the others, and
\* installs a fresh record with the new descriptor, an empty cache and no
\* timer.
C8_NonResumeJoinReplaces ==
    [][last' = "rebind" =>
        \A ws \in Sessions, client \in Descriptors :
         (/\ ~client.resume
          /\ Known(ws, client.clientId)
          /\ RecvJoin(ws, client))
         => LET roomId == sess[ws].roomId
                prior == Record(ws, client.clientId)
            IN /\ Has(rooms'[roomId].clients, client.clientId)
               /\ RecordIn(rooms', roomId, client.clientId) =
                    [client |-> client, session |-> ws, lastPongTime |-> now,
                     disconnectTimeout |-> NoTimer, messageCache |-> <<>>]
               /\ \A i \in DOMAIN rooms[roomId].clients :
                    LET other == rooms[roomId].clients[i]
                    IN (other.client.clientId # client.clientId
                        /\ other.session # ws)
                       => LeaveReached(rooms', out', roomId,
                                       other.client.clientId, prior.client)
      ]_vars

\* --------------------------------------------------------------------- C9
\* C9: a record has a pending timer exactly when the session it is bound to
\* has closed.
C9_TimerIffGrace ==
    \A r \in RoomIds : \A i \in DOMAIN rooms[r].clients :
        rooms[r].clients[i].disconnectTimeout # NoTimer
            <=> sess[rooms[r].clients[i].session].state = "closed"

\* -------------------------------------------------------------------- C10
\* the remaining records of a room bound to session s
BoundTo(clients, s) == {i \in DOMAIN clients : clients[i].session = s}

C11_JoinReachesEveryOther ==
    [][last' = "join" =>
        \A ws \in Sessions, client \in Descriptors :
         (/\ RoomOf(ws).exists
          /\ ~Known(ws, client.clientId)
          /\ RecvJoin(ws, client))
         => LET old == RoomOf(ws).clients
                new == rooms'[sess[ws].roomId].clients
            IN /\ Len(new) = Len(old) + 1
               /\ \A i \in DOMAIN old :
                    IF sess[old[i].session].state = "open"
                    THEN /\ new[i] = old[i]
                         /\ \E k \in DOMAIN out'[old[i].session] :
                              out'[old[i].session][k] = JoinMsg(client)
                    ELSE new[i] = [old[i] EXCEPT !.messageCache =
                                                    Append(@, JoinMsg(client))]
               /\ new[Len(new)].client = client
               /\ new[Len(new)].messageCache = <<>>
      ]_vars

\* -------------------------------------------------------------------- C12
\* C12: open writes "connected" to the new session and nothing else, and a
\* later join of that session as a new client writes to it exactly one join
\* envelope per record the room held, those in their grace period included,
\* in the order of the map, none of them carrying the joining descriptor's
\* clientId.
C12_RosterBootstrap ==
    [][/\ last' = "open" =>
            /\ Len(out'[nopen']) = 1
            /\ out'[nopen'][1].type = "connected"
       /\ last' = "join" =>
            \A ws \in Sessions, client \in Descriptors :
             (/\ RoomOf(ws).exists
              /\ ~Known(ws, client.clientId)
              /\ RecvJoin(ws, client))
             => LET old == RoomOf(ws).clients
                IN /\ out'[ws] = [i \in DOMAIN old |-> JoinMsg(old[i].client)]
                   /\ \A i \in DOMAIN out'[ws] :
                        out'[ws][i].data.clientId # client.clientId
      ]_vars

\* a session has just joined a room whose only record was in its grace
\* period and received the join envelope of that record, and nothing else
C12_Witness ==
    /\ last = "join"
    /\ \E s \in Sessions :
        /\ sess[s].state = "open"
        /\ Known(s, sess[s].clientId)
        /\ Record(s, sess[s].clientId).session = s
        /\ Len(RoomOf(s).clients) = 2
        /\ Len(out[s]) = 1
        /\ out[s][1].type = "join"
        /\ out[s][1].data.clientId # sess[s].clientId
        /\ Known(s, out[s][1].data.clientId)
        /\ Record(s, out[s][1].data.clientId).disconnectTimeout # NoTimer
        /\ sess[Record(s, out[s][1].data.clientId).session].state = "closed"

\* -------------------------------------------------------------------- C13
\* C13: a room's passwordHash is set when open creates the room, from the
\* pwd of the connection that creates it (null when empty), and no step
\* changes it while the room stays in the map; open writes to the new
\* session exactly one frame, connected, carrying the stored value.
C13_PasswordHashFixed ==
    [][/\ \A r \in RoomIds :
            (rooms[r].exists /\ rooms'[r].exists)
                => rooms'[r].passwordHash = rooms[r].passwordHash
       /\ last' = "open" =>
            LET s == nopen'
                r == sess'[s].roomId
            IN /\ rooms'[r].exists
               /\ ~rooms[r].exists =>
                    rooms'[r].passwordHash =
                        IF sess'[s].passwordHash = "" THEN Null
                        ELSE sess'[s].passwordHash
               /\ out'[s] = <<ConnectedMsg(rooms'[r].passwordHash)>>
      ]_vars

\* a connection that supplied no pwd has just opened on a room created with
\* a hash, and received connected carrying the room's hash
C13_Witness ==
    /\ last = "open"
    /\ sess[nopen].passwordHash = ""
    /\ RoomOf(nopen).passwordHash = "h1"
    /\ RoomOf(nopen).clients # <<>>
    /\ out[nopen] = <<ConnectedMsg("h1")>>

\* -------------------------------------------------------------------- C14
\* the records of the room of s that are bound to s
RecordsOf(s) ==
    {i \in DOMAIN RoomOf(s).clients : RoomOf(s).clients[i].session = s}

\* C14: a heartbeat sweep changes no cache; it writes nothing to a session
\* that is not open and leaves it as it is; an open session bound to a
\* record whose lastPongTime is older than PONG_TIMEOUT is closed and gets
\* no ping; any other open session bound to a record gets exactly one ping
\* and stays open.
C14_SweepPingsOrCloses ==
    [][(last' = "beat" /\ Heartbeat) =>
        /\ \A r \in RoomIds :
            /\ Len(rooms'[r].clients) = Len(rooms[r].clients)
            /\ \A i \in DOMAIN rooms[r].clients :
                rooms'[r].clients[i].messageCache = rooms[r].clients[i].messageCache
        /\ \A s \in Sessions :
            IF sess[s].state # "open"
            THEN sess'[s] = sess[s] /\ out'[s] = <<>>
            ELSE IF RecordsOf(s) = {} THEN TRUE
            ELSE IF \E i \in RecordsOf(s) :
                      now - RoomOf(s).clients[i].lastPongTime > PONG_TIMEOUT
            THEN sess'[s].state = "closed" /\ out'[s] = <<>>
            ELSE sess'[s] = sess[s] /\ out'[s] = <<PingMsg>>
      ]_vars

\* -------------------------------------------------------------------- C15
\* C15: a client that has a record and sends nothing more loses it: the
\* heartbeat closes its session once its last pong is older than
\* PONG_TIMEOUT and the grace timer of that close evicts the record.  The
\* inbound frames of a run are finitely many, so every client stops
\* answering and rejoining at some point.
C15_SilentClientEvicted ==
    \A c \in ClientIds :
        Has(rooms["X"].clients, c) ~> ~Has(rooms["X"].clients, c)

\* -------------------------------------------------------------------- C16
\* C16: an inbound ping from a session whose clientId has a record sets the
\* record's lastPongTime to now and changes nothing else.
C16_PingIsLiveness ==
    [][last' = "ping" =>
        \A ws \in Sessions :
         (/\ Known(ws, sess[ws].clientId)
          /\ RecvSignal(ws, RawSignal("ping", FALSE, NoDesc)))
         => /\ rooms' = [rooms EXCEPT ![sess[ws].roomId].clients[
                            Idx(RoomOf(ws).clients, sess[ws].clientId)
                          ].lastPongTime = now]
            /\ sess' = sess
            /\ timers' = timers
            /\ out' = Silent
      ]_vars

\* -------------------------------------------------------------------- C17
\* the step changed no room, record, cache, timer or session and wrote
\* nothing
Dropped ==
    /\ rooms' = rooms
    /\ sess' = sess
    /\ timers' = timers
    /\ out' = Silent

\* C17: a frame that is no JSON, has no type, has an unknown type or is a
\* join, leave or message without data is dropped, and so is any frame of a
\* session whose room is not in the map: the sender stays open and nothing
\* changes or is sent.
C17_BadFrameDropped ==
    [][\A ws \in Sessions :
        /\ last' = "bad" =>
            \A signal \in BadSignals : RecvSignal(ws, signal) => Dropped
        /\ ~RoomOf(ws).exists =>
            /\ \A signal \in BadSignals : RecvSignal(ws, signal) => Dropped
            /\ \A client \in Descriptors : RecvJoin(ws, client) => Dropped
            /\ \A client \in LeaveDescriptors : RecvLeave(ws, client) => Dropped
            /\ \A target \in ClientIds : RecvMessage(ws, target) => Dropped
      ]_vars

\* a frame has just been dropped while the room held a record in its grace
\* period, with a pending timer and a cached envelope, and a record bound to
\* an open session
C17_Witness ==
    /\ last = "bad"
    /\ credit = 0
    /\ out = Silent
    /\ \E i, j \in DOMAIN rooms["X"].clients :
        /\ rooms["X"].clients[i].disconnectTimeout # NoTimer
        /\ timers[rooms["X"].clients[i].disconnectTimeout].armed
        /\ rooms["X"].clients[i].messageCache # <<>>
        /\ sess[rooms["X"].clients[j].session].state = "open"
        /\ sess[rooms["X"].clients[j].session].clientId
            = rooms["X"].clients[j].client.clientId

\* -------------------------------------------------------------------- C18
\* C18: a client id has a record in at most one room at a time.
C18_OneRoomPerClient ==
    \A c \in ClientIds :
        ~(Has(rooms["X"].clients, c) /\ Has(rooms["Y"].clients, c))

\* -------------------------------------------------------------------- C19
\* every envelope held in a messageCache is a join, a leave or a message
CachedTypesOk ==
    \A r \in RoomIds : \A i \in DOMAIN rooms[r].clients :
        \A k \in DOMAIN rooms[r].clients[i].messageCache :
            rooms[r].clients[i].messageCache[k].type
                \in {"join", "leave", "message"}

\* C19: ping, pong and connected envelopes are never buffered or fanned out:
\* every cached envelope is a join, a leave or a message, and an inbound ping
\* or pong of one session writes nothing to any other session.
C19_LivenessFramesNotRelayed ==
    [][/\ CachedTypesOk'
       /\ \A ws \in Sessions : \A signal \in LiveSignals :
            RecvSignal(ws, signal) =>
                \A t \in Sessions \ {ws} : out'[t] = <<>>
      ]_vars

\* the heartbeat has just pinged an open session while the room holds a
\* record whose session is closed and whose cache is not empty
C19_Witness ==
    /\ last = "beat"
    /\ \E s \in Sessions : out[s] = <<PingMsg>>
    /\ \E i \in DOMAIN rooms["X"].clients :
        /\ sess[rooms["X"].clients[i].session].state # "open"
        /\ rooms["X"].clients[i].messageCache # <<>>

C23_NoGhostRecord ==
    \A c \in ClientIds :
        (/\ Has(rooms["X"].clients, c)
         /\ sess[RecordOf(State, "X", c).session].state = "closed")
        ~> (\/ ~Has(rooms["X"].clients, c)
            \/ sess[RecordOf(State, "X", c).session].state = "open")

\* -------------------------------------------------------------------- C24
\* C24: the firing of a grace timer evicts no record whose current session
\* is open and closes no open session.
C24_TimerSparesLiveSession ==
    [][last' = "timer" =>
        \A t \in Sessions : TimerFire(t) =>
            /\ \A s \in Sessions :
                sess[s].state = "open" => sess'[s].state = "open"
            /\ \A r \in RoomIds : \A i \in DOMAIN rooms[r].clients :
                sess[rooms[r].clients[i].session].state = "open"
                    => /\ rooms'[r].exists
                       /\ Has(rooms'[r].clients,
                              rooms[r].clients[i].client.clientId)
      ]_vars

\* -------------------------------------------------------------------- C25
\* C25: a client record has at most one pending grace timer, and it is the
\* one its disconnectTimeout refers to.
C25_OneTimerPerRecord ==
    \A t \in Sessions :
        (timers[t].armed /\ timers[t].roomLive /\ timers[t].live)
            => Captured(t).disconnectTimeout = t

\* -------------------------------------------------------------------- C26
\* C26: the room of an open session that has not joined yet is in the room
\* map.
C26_RoomKeptForUnjoined ==
    \A s \in Sessions :
        (sess[s].state = "open" /\ sess[s].clientId = NoClient)
            => rooms[sess[s].roomId].exists

\* -------------------------------------------------------------------- C27
\* C27: no two records of a room refer to the same session.
C27_OneRecordPerSession ==
    \A r \in RoomIds : \A i, j \in DOMAIN rooms[r].clients :
        rooms[r].clients[i].session = rooms[r].clients[j].session => i = j

\* -------------------------------------------------------------------- C28
\* C28: a leave frame whose descriptor names a record bound to another
\* session does not evict that record and fans out no leave for it.
C28_LeaveOnlyOwnRecord ==
    [][last' = "leave" =>
        \A ws \in Sessions : \A client \in LeaveDescriptors :
            (/\ RecvLeave(ws, client)
             /\ Known(ws, client.clientId)
             /\ Record(ws, client.clientId).session # ws)
            => /\ rooms'[sess[ws].roomId].exists
               /\ Has(rooms'[sess[ws].roomId].clients, client.clientId)
               /\ \A s \in Sessions : \A k \in DOMAIN out'[s] :
                    out'[s][k] # LeaveMsg(client)
      ]_vars

\* -------------------------------------------------------------------- C30
\* C30: a record's messageCache is non-empty only while the record's
\* current session is not open.
C30_CacheOnlyWhileNotOpen ==
    \A r \in RoomIds : \A i \in DOMAIN rooms[r].clients :
        rooms[r].clients[i].messageCache # <<>>
            => sess[rooms[r].clients[i].session].state # "open"

\* a join has just rebound a record to an open session and written the
\* envelopes its cache held, and the cache is empty
C30_Witness ==
    /\ last \in {"rebind", "resume"}
    /\ \E ws \in Sessions :
        /\ sess[ws].state = "open"
        /\ out[ws] # <<>>
        /\ Known(ws, sess[ws].clientId)
        /\ Record(ws, sess[ws].clientId).session = ws
        /\ Record(ws, sess[ws].clientId).messageCache = <<>>

\* -------------------------------------------------------------------- C29
\* C29: a message frame from a session that has not joined, or whose client
\* id has no record in the room, is not forwarded or cached for any target
\* and changes no room state.
C29_MessageWithoutRecordDropped ==
    [][last' = "message" =>
        \A ws \in Sessions : \A target \in {EmptyId, "a"} :
            (/\ RecvMessage(ws, target)
             /\ \/ sess[ws].clientId = NoClient
                \/ ~Known(ws, sess[ws].clientId))
            => Dropped
      ]_vars

\* -------------------------------------------------------------------- C21
\* the records of a room without their caches
Uncached(clients) ==
    [i \in DOMAIN clients |-> [clients[i] EXCEPT !.messageCache = <<>>]]

\* C21: a signal consumed from the bus is only written to local sessions or
\* appended to local caches and is not published again; a message of a
\* local session is published only when the room holds no local record for
\* its target; and nothing is published for a room that is not in the
\* subscription set.
C21_RemoteNeverRepublished ==
    [][\A I \in Instances :
        /\ Consume(I) =>
            /\ bus'.inst[I].pub = <<>>
            /\ \A K \in Instances : Len(bus'.chan[K]) <= Len(bus.chan[K])
            /\ bus'.inst[I].sess = bus.inst[I].sess
            /\ bus'.inst[I].timers = bus.inst[I].timers
            /\ bus'.inst[I].subs = bus.inst[I].subs
            /\ \A r \in RoomIds :
                /\ bus'.inst[I].rooms[r].exists = bus.inst[I].rooms[r].exists
                /\ Uncached(bus'.inst[I].rooms[r].clients)
                    = Uncached(bus.inst[I].rooms[r].clients)
        /\ \A k \in DOMAIN bus'.inst[I].pub :
            /\ bus'.inst[I].pub[k].roomId \in bus.inst[I].subs
            /\ bus'.inst[I].pub[k].env.type = "message" =>
                ~Has(bus.inst[I].rooms[bus'.inst[I].pub[k].roomId].clients,
                     bus'.inst[I].pub[k].env.data.targetClientId)
        /\ bus'.inst[I].pub = <<>> =>
            \A K \in Instances \ {I} : Len(bus'.chan[K]) <= Len(bus.chan[K])
      ]_vars

\* an instance has just written to one of its sessions the join of a client
\* that the other instance hosts and it does not, and has published nothing
C21_Witness ==
    \E I \in Instances : \E s \in Sessions : \E d \in LeaveDescriptors :
        /\ bus.inst[I].out[s] = <<JoinMsg(d)>>
        /\ bus.inst[I].pub = <<>>
        /\ ~Has(bus.inst[I].rooms["X"].clients, d.clientId)
        /\ Has(bus.inst[3 - I].rooms["X"].clients, d.clientId)

\* -------------------------------------------------------------------- C22
\* envelope env is written to every session in targets, and appended to the
\* cache of every record of clients in idx whose session is not open
Observed(I, roomId, idx, env) ==
    LET clients == bus.inst[I].rooms[roomId].clients
    IN \A i \in idx :
        IF bus.inst[I].sess[clients[i].session].state = "open"
        THEN \E k \in DOMAIN bus'.inst[I].out[clients[i].session] :
                bus'.inst[I].out[clients[i].session][k] = env
        ELSE bus'.inst[I].rooms[roomId].clients[i].messageCache
                = Append(clients[i].messageCache, env)

\* instance I publishes env for room X in this step: env is queued for
\* every other instance that is subscribed to the room
Queued(I, env) ==
    \A K \in Instances \ {I} :
        "X" \in bus.inst[K].subs =>
            bus'.chan[K] = Append(bus.chan[K], [roomId |-> "X", env |-> env])

\* C22: with the instances subscribed to room X, a message of a joined
\* client whose target has no record on its instance is published to the
\* bus, and so is a join that installs a record and a leave that evicts
\* one; every envelope on the bus is consumed in the end, and when an
\* instance consumes one, a message reaches the record of its target there
\* and a join or a leave reaches every member the instance hosts.
C22_CrossInstanceRouting ==
    /\ [][\A I \in Instances :
           /\ \A ws \in Sessions :
               (Hosts(I, ws) /\ "X" \in bus.inst[I].subs) =>
                /\ \A target \in ClientIds :
                    (/\ BusMessage(I, ws, target)
                     /\ Has(bus.inst[I].rooms["X"].clients,
                            Key(bus.inst[I].sess[ws].clientId))
                     /\ ~Has(bus.inst[I].rooms["X"].clients, target))
                    => Queued(I, MessageMsg(
                            [clientId |-> bus.inst[I].sess[ws].clientId,
                             targetClientId |-> target, src |-> ws]))
                /\ \A client \in LeaveDescriptors :
                    /\ (/\ BusJoin(I, ws, client)
                        /\ ~Has(bus.inst[I].rooms["X"].clients, client.clientId))
                       => Queued(I, JoinMsg(client))
                    /\ (/\ BusLeave(I, ws, client)
                        /\ Has(bus.inst[I].rooms["X"].clients, client.clientId))
                       => Queued(I, LeaveMsg(client))
           /\ (Consume(I) /\ bus.inst[I].rooms["X"].exists) =>
                LET env == Head(bus.chan[I]).env
                    clients == bus.inst[I].rooms["X"].clients
                IN IF env.type = "message"
                   THEN Observed(I, "X",
                            {i \in DOMAIN clients :
                                i = Idx(clients, env.data.targetClientId)}, env)
                   ELSE Observed(I, "X", DOMAIN clients, env)
       ]_vars
    /\ \A I \in Instances : (bus.chan[I] # <<>>) ~> (bus.chan[I] = <<>>)

\* an instance has just written to the session of a client it hosts a
\* message that came in on a session of the other instance
C22_Witness ==
    \E I \in Instances : \E s \in Sessions : \E c \in ClientIds :
        /\ Hosts(I, s)
        /\ Has(bus.inst[I].rooms["X"].clients, c)
        /\ RecordOf(bus.inst[I], "X", c).session = s
        /\ Len(bus.inst[I].out[s]) = 1
        /\ bus.inst[I].out[s][1].type = "message"
        /\ bus.inst[I].out[s][1].data.targetClientId = c
        /\ bus.inst[3 - I].sess[bus.inst[I].out[s][1].data.src].state = "open"

\* -------------------------------------------------------------------- C31
\* C31: the passwordHash a joined client was sent in its connected envelope
\* is the passwordHash of the room that holds its record.
C31_ConnectedHashIsRoomHash ==
    \A r \in RoomIds : \A i \in DOMAIN rooms[r].clients :
        /\ hist.inbox[rooms[r].clients[i].session] # <<>>
        /\ Head(hist.inbox[rooms[r].clients[i].session])
            = ConnectedMsg(rooms[r].passwordHash)

====
